---- MODULE Spec2Model ----
(***************************************************************************)
(* A model of menpofit/sdm/fitter.py: SupervisedDescentFitter, the trainer *)
(* of a multi-scale cascade of supervised-descent regressors.              *)
(*                                                                         *)
(* The state is the trainer object (reference_shape, n_perturbations,      *)
(* scales, features, algorithms), the locals of the running _train call    *)
(* (the batch iterator, group, increment, k, image_batch, all_bb_keys,     *)
(* current_shapes, j, feature_images, scaled_images) and the position in   *)
(* its two nested loops.  A ghost variable, trace, records the calls made  *)
(* to the collaborators and the warnings emitted.                          *)
(*                                                                         *)
(* Strings that the code formats or matches (landmark keys) are sequences  *)
(* of one-character strings, so that '{}_{}'.format and the glob match of  *)
(* keys_matching are computed, not assumed.  Numbers that the code divides *)
(* (the scale factors) are reduced fractions <<numerator, denominator>>.   *)
(***************************************************************************)
EXTENDS Integers, Sequences, FiniteSets, TLC

\* ------------------------------------------------------------ bounds
\* The largest image source handed to one call.
NumImages == 2
\* The largest configured n_perturbations.
MaxPert == 3
\* The largest number of bounding boxes an image is supplied with.
MaxBoxes == 3
\* The longest scale ladder.
MaxScales == 3
\* The number of public increment calls made after construction.
MaxCalls == 1

\* ------------------------------------------------------------ strings
Digits == <<"0", "1", "2", "3", "4", "5", "6", "7", "8", "9">>

\* str(n) of a non-negative integer, as '{}'.format(n) writes it.
RECURSIVE Str(_)
Str(n) ==
  IF n < 10 THEN <<Digits[n + 1]>>
  ELSE Str(n \div 10) \o <<Digits[(n % 10) + 1]>>

\* '{}_{}'.format(bb_group, j)
FormatKey(bb_group, n) == bb_group \o <<"_">> \o Str(n)

\* bb_group + '0'
FormatKey0(bb_group) == bb_group \o <<"0">>

\* fnmatch of key against '*{}*'.format(bb_group): bb_group occurs in key.
\* (The names used here hold none of the glob characters * ? [ ].)
Matches(key, bb_group) ==
  \E i \in 0..(Len(key) - Len(bb_group)) :
    SubSeq(key, i + 1, i + Len(bb_group)) = bb_group

\* The reserved namespace '__gt_bb_'.
GtBbGroup == <<"_", "_", "g", "t", "_", "b", "b", "_">>

\* ------------------------------------------------------------ fractions
RECURSIVE Gcd(_, _)
Gcd(a, b) == IF b = 0 THEN a ELSE Gcd(b, a % b)

\* The fraction n/d in lowest terms.
Frac(n, d) == <<n \div Gcd(n, d), d \div Gcd(n, d)>>

\* a / b of two fractions.
FracDiv(a, b) == Frac(a[1] * b[2], a[2] * b[1])

\* a * b of two fractions.
FracMul(a, b) == Frac(a[1] * b[1], a[2] * b[2])

FracOne == <<1, 1>>
FracHalf == <<1, 2>>
FracTwo == <<2, 1>>

\* ------------------------------------------------------------ landmarks
\* A landmark manager is the sequence of its (key, value) entries in the
\* order the keys were first assigned.
HasKey(lm, key) == \E i \in 1..Len(lm) : lm[i].key = key

\* landmarks[key].lms
GetLms(lm, key) == lm[CHOOSE i \in 1..Len(lm) : lm[i].key = key].val

\* landmarks[key] = val
SetLms(lm, key, val) ==
  IF HasKey(lm, key)
  THEN [i \in 1..Len(lm) |->
          IF lm[i].key = key THEN [key |-> key, val |-> val] ELSE lm[i]]
  ELSE Append(lm, [key |-> key, val |-> val])

\* landmarks.group_labels
GroupLabels(lm) == [i \in 1..Len(lm) |-> lm[i].key]

IsMatch(bb_group, key) == Matches(key, bb_group)

\* list(landmarks.keys_matching('*{}*'.format(bb_group)))
KeysMatching(lm, bb_group) ==
  LET labels == GroupLabels(lm)
      RECURSIVE Pick(_)
      Pick(i) == IF i > Len(labels) THEN <<>>
                 ELSE (IF IsMatch(bb_group, labels[i]) THEN <<labels[i]>> ELSE <<>>)
                      \o Pick(i + 1)
  IN  Pick(1)

\* ------------------------------------------------------------ shapes
\* A shape or box stored on an image: the image and key it was first supplied
\* under, and the operations applied to it since.
Supplied(img, key) == [img |-> img, key |-> key, ops |-> <<>>]

\* shape.bounding_box()
BoundingBox(shape) ==
  [shape EXCEPT !.ops = Append(@, [op |-> "bounding_box", draw |-> 0])]

\* perturb_from_bounding_box(gt_s, bb): one fresh noisy box around bb.  The
\* noise is random: draw tells the draws of one image apart.
PerturbFromBoundingBox(gt_s, bb, draw) ==
  [bb EXCEPT !.ops = Append(@, [op |-> "perturb", draw |-> draw])]

\* align_shape_with_bounding_box(reference_shape, bbox): the estimate seeded
\* from bbox, in the frame of the image the box was read from.
AlignShapeWithBoundingBox(reference_shape, bbox, frame) ==
  [ref |-> reference_shape, bbox |-> bbox, frame0 |-> frame,
   xf |-> <<>>, by |-> <<>>]

\* Scale(ratio).apply_inplace(shape)
ApplyScale(ratio, shape) == [shape EXCEPT !.xf = Append(@, ratio)]

RECURSIVE FracProd(_)
FracProd(s) == IF s = <<>> THEN FracOne ELSE FracMul(Head(s), FracProd(Tail(s)))

\* The coordinate frame an estimate is in: the factor of the image it was
\* seeded on times every factor applied to it since.
FrameOf(shape) == FracMul(shape.frame0, FracProd(shape.xf))

\* ------------------------------------------------------------ inputs
\* batch_size=None and diagonal=None.
NoBatch == 0
NoDiagonal == 0

\* group=None and bounding_box_group=None: no name given.
NoKey == <<>>

\* reference_shape=None.
NoShape == [src |-> "None", mean |-> <<0, 1>>, diagonal |-> NoDiagonal]

\* A reference shape supplied by the caller.
GivenShape == [src |-> "given", mean |-> <<1, 1>>, diagonal |-> NoDiagonal]

\* The landmark group the images are annotated under, and the bounding-box
\* group a caller may name.
GtGroup == <<"g">>
BbGroup == <<"b">>

\* An annotated image as the caller supplies it: its ground truth first, then
\* the boxes supplied under bbkeys; not yet rescaled, featured or scaled.
MakeImage(id, bbkeys) ==
  [id |-> id,
   lm |-> <<[key |-> GtGroup, val |-> Supplied(id, GtGroup)]>>
          \o [i \in 1..Len(bbkeys) |->
                [key |-> bbkeys[i], val |-> Supplied(id, bbkeys[i])]],
   ref |-> NoShape, feat |-> "None", scale |-> FracOne]

\* m supplied boxes, keyed 'b_<start>', 'b_<start+1>', ...
BoxKeys(start, m) == [i \in 1..m |-> FormatKey(BbGroup, start + i - 1)]

\* The key families an image source carries: 0..MaxBoxes boxes numbered from
\* 0, or a single box numbered 1.
BoxKeyFamilies == {BoxKeys(0, m) : m \in 0..MaxBoxes} \cup {BoxKeys(1, 1)}

\* n images, every one carrying the same keys.
Dataset(n, bbkeys) == [i \in 1..n |-> MakeImage(i, bbkeys)]

BatchSizes == {NoBatch} \cup 1..NumImages

\* What one call is given: the images, the bounding-box group, the batch size.
Sources ==
  {[images |-> Dataset(n, <<>>), bounding_box_group |-> NoKey, batch_size |-> b] :
     n \in 0..NumImages, b \in BatchSizes}
  \cup
  {[images |-> Dataset(n, fam), bounding_box_group |-> BbGroup, batch_size |-> b] :
     n \in 1..NumImages, fam \in BoxKeyFamilies, b \in BatchSizes}

ScaleValues == {FracHalf, FracOne, FracTwo}
FeatureFns == {"no_op", "hog"}

\* Every scale ladder of up to MaxScales levels with a feature function each.
Pyramids ==
  UNION {[scales : [1..n -> ScaleValues], features : [1..n -> FeatureFns]] :
           n \in 1..MaxScales}

\* The defaults of __init__: scales=(0.5, 1.0), one feature function for all.
DefaultPyramid ==
  [scales |-> <<FracHalf, FracOne>>, features |-> <<"no_op", "no_op">>]

\* ------------------------------------------------------------ collaborators
\* menpofit.base.batch: chunks of n, the last one shorter; none of an empty source.
RECURSIVE Batch(_, _)
Batch(images, n) ==
  IF Len(images) = 0 THEN <<>>
  ELSE IF Len(images) <= n THEN <<images>>
  ELSE <<SubSeq(images, 1, n)>> \o Batch(SubSeq(images, n + 1, Len(images)), n)

\* The size of an annotated shape, for the mean: image i's shape has size i.
ShapeSize(shape) == shape.img

RECURSIVE SumSizes(_)
SumSizes(shapes) ==
  IF shapes = <<>> THEN 0 ELSE ShapeSize(Head(shapes)) + SumSizes(Tail(shapes))

\* menpofit.builder.compute_reference_shape: the mean of the shapes.
ComputeReferenceShape(shapes, diag) ==
  [src |-> "mean", mean |-> Frac(SumSizes(shapes), Len(shapes)), diagonal |-> diag]

\* menpofit.builder.rescale_images_to_reference_shape
RescaleImagesToReferenceShape(images, grp, reference) ==
  [i \in 1..Len(images) |-> [images[i] EXCEPT !.ref = reference]]

\* menpofit.builder.compute_features
ComputeFeatures(images, f) ==
  [i \in 1..Len(images) |-> [images[i] EXCEPT !.feat = f]]

\* menpofit.builder.scale_images
ScaleImages(images, s) ==
  [i \in 1..Len(images) |-> [images[i] EXCEPT !.scale = FracMul(@, s)]]

\* What a stage is given for one image.
Sample(image, shape, estimates) ==
  [img |-> image.id, ref |-> image.ref, feat |-> image.feat,
   scale |-> image.scale, gt |-> shape, current |-> estimates]

Samples(images, shapes, estimates) ==
  [i \in 1..Len(images) |-> Sample(images[i], shapes[i], estimates[i])]

\* The estimates a stage returns: one per estimate given, corrected by stage jj.
Corrected(estimates, jj) ==
  [i \in 1..Len(estimates) |->
     [n \in 1..Len(estimates[i]) |->
        [estimates[i][n] EXCEPT !.by = Append(@, jj)]]]

\* algorithm.train: fit from scratch on what is given.
StageTrain(stage, images, shapes, estimates) ==
  [trained |-> TRUE, fed |-> <<Samples(images, shapes, estimates)>>]

\* algorithm.increment: extend the fit with what is given.
StageIncrement(stage, images, shapes, estimates) ==
  [trained |-> stage.trained,
   fed |-> Append(stage.fed, Samples(images, shapes, estimates))]

\* A stage as its constructor leaves it.
NewStage == [trained |-> FALSE, fed |-> <<>>]

\* ------------------------------------------------------------ state
VARIABLES
  \* the trainer object
  reference_shape, n_perturbations, scales, features, diagonal, algorithms,
  \* the arguments and locals of the running _train call
  group, bounding_box_group, batch_size, image_batches, increment, k,
  \* the locals of the running batch
  image_batch, bb_group, n_found, all_bb_keys, current_shapes, j,
  feature_images, scaled_images, scaled_shapes,
  \* where the call stands, and how many public increment calls were made
  pc, call,
  \* ghost: the collaborator calls made and warnings emitted, in order
  trace,
  \* the environment: what the caller may hand to a later increment call
  sources,
  \* ghost: what the trainer was constructed with, and the stages of the
  \* trainer built before it when the caller builds a second one
  config, baseline

trainer == <<reference_shape, n_perturbations, scales, features, diagonal, algorithms>>
args == <<group, bounding_box_group, batch_size, image_batches, increment, k>>
locals == <<image_batch, bb_group, n_found, all_bb_keys, current_shapes, j,
            feature_images, scaled_images, scaled_shapes>>
env == <<sources, config, baseline>>
vars == <<trainer, args, locals, pc, call, trace, env>>

n_scales == Len(scales)

\* One entry of the trace: what was called, in which call, batch and scale
\* (jj = -1 for what happens before the scale loop).
Event(ev, jj) == [ev |-> ev, call |-> call, k |-> k, j |-> jj]

\* ------------------------------------------------------------ _train, per batch
\* image_batches: one batch of everything, or chunks of batch_size.
ImageBatches(images, size) ==
  IF size # NoBatch THEN Batch(images, size) ELSE <<images>>

\* A faulty variant: the flag is never raised after the first batch.
IncrementFlagKept(incr, kk) == incr

\* After the first batch, we are incrementing the model.
IncrementFlag(incr, kk) == incr \/ kk > 0

\* A faulty variant: the group is read off the first image of every batch.
ResolveGroupFromBatch(grp, batch) == GroupLabels(batch[1].lm)[1]

\* group, resolved from the first image of the batch when none was given.
ResolveGroup(grp, batch) ==
  IF grp = NoKey THEN GroupLabels(batch[1].lm)[1] ELSE grp

\* The batch cannot be processed: it is empty, or an image lacks the group.
BatchRaises(grp, batch) ==
  \/ Len(batch) = 0
  \/ \E i \in 1..Len(batch) : ~HasKey(batch[i].lm, ResolveGroup(grp, batch))

\* A faulty variant: the reference shape is recomputed from every batch.
ReferenceShapeRecomputed(reference, batch, grp, diag) ==
  ComputeReferenceShape([i \in 1..Len(batch) |-> GetLms(batch[i].lm, grp)], diag)

\* self.reference_shape after the batch: kept when set, else the mean of the
\* batch's ground-truth shapes.
ReferenceShapeFor(reference, batch, grp, diag) ==
  IF reference = NoShape
  THEN ComputeReferenceShape([i \in 1..Len(batch) |-> GetLms(batch[i].lm, grp)], diag)
  ELSE reference

\* bb_group: the reserved namespace when no bounding-box group was given.
ResolveBbGroup(bbg) == IF bbg = NoKey THEN GtBbGroup ELSE bbg

\* The ground-truth box attached to every image under bb_group + '0' when no
\* bounding-box group was given.
AttachGtBoxes(batch, grp, bbg) ==
  IF bbg = NoKey
  THEN [i \in 1..Len(batch) |->
          [batch[i] EXCEPT !.lm =
             SetLms(@, FormatKey0(GtBbGroup), BoundingBox(GetLms(@, grp)))]]
  ELSE batch

\* range(1, self.n_perturbations): the draws made from the seed box.
LastDraw(n_pert) == n_pert - 1

\* The boxes generated on one image from its single box under seed_key.
GenerateBoxes(lm0, grp, bbgroup, seed_key, n_pert) ==
  LET RECURSIVE Gen(_, _)
      Gen(lm, jj) ==
        IF jj > LastDraw(n_pert) THEN lm
        ELSE LET gt_s == BoundingBox(GetLms(lm, grp))
                 bb == GetLms(lm, seed_key)
                 p_s == PerturbFromBoundingBox(gt_s, bb, jj)
             IN  Gen(SetLms(lm, FormatKey(bbgroup, jj), p_s), jj + 1)
  IN  Gen(lm0, 1)

\* The count found is 1: more boxes are generated.
MustGenerate(found) == found = 1

\* A faulty variant: a single box found resets the configured count too.
MustResetOnAnyDifference(found, n_pert) == found # n_pert

\* A faulty variant: the configured count is only ever raised.
MustResetWhenMore(found, n_pert) == ~MustGenerate(found) /\ found > n_pert

\* The count found differs from the configured one: warn and overwrite.
MustReset(found, n_pert) == ~MustGenerate(found) /\ found # n_pert

\* One iteration of the batch loop, up to the scale loop (lines 78-162).
BatchHead ==
  /\ pc = "batch"
  /\ image_batches # <<>>
  /\ LET batch0 == Head(image_batches)
         incr == IncrementFlag(increment, k)
     IN
     /\ image_batches' = Tail(image_batches)
     /\ increment' = incr
     /\ IF BatchRaises(group, batch0)
        THEN /\ pc' = "raised"
             /\ UNCHANGED <<trainer, group, bounding_box_group, batch_size, k,
                            locals, call, trace, env>>
        ELSE
          LET grp == ResolveGroup(group, batch0)
              ref == ReferenceShapeFor(reference_shape, batch0, grp, diagonal)
              ev_ref == IF reference_shape = NoShape
                        THEN (IF batch_size # NoBatch
                              THEN <<Event("warn_reference_shape", -1)>> ELSE <<>>)
                             \o <<Event("compute_reference_shape", -1)>>
                        ELSE <<>>
              rescaled == RescaleImagesToReferenceShape(batch0, grp, ref)
              boxed == AttachGtBoxes(rescaled, grp, bounding_box_group)
              bbg == ResolveBbGroup(bounding_box_group)
              keys0 == KeysMatching(boxed[1].lm, bbg)
              found == Len(keys0)
              generated ==
                IF MustGenerate(found)
                THEN [i \in 1..Len(boxed) |->
                        [boxed[i] EXCEPT !.lm =
                           GenerateBoxes(@, grp, bbg, keys0[1], n_perturbations)]]
                ELSE boxed
              reset == MustReset(found, n_perturbations)
          IN
          /\ group' = grp
          /\ reference_shape' = ref
          /\ n_perturbations' = IF reset THEN found ELSE n_perturbations
          /\ image_batch' = generated
          /\ bb_group' = bbg
          /\ n_found' = found
          /\ all_bb_keys' = KeysMatching(generated[1].lm, bbg)
          /\ current_shapes' = <<>>
          /\ j' = 0
          /\ trace' = trace \o <<Event("batch", -1)>> \o ev_ref
                      \o (IF MustGenerate(found)
                          THEN <<Event("generate_boxes", -1)>> ELSE <<>>)
                      \o (IF reset THEN <<Event("warn_n_perturbations", -1)>> ELSE <<>>)
          /\ pc' = "scale"
          /\ UNCHANGED <<scales, features, diagonal, algorithms,
                         bounding_box_group, batch_size, k,
                         feature_images, scaled_images, scaled_shapes,
                         call, env>>

\* The batches are exhausted: _train returns.
Return ==
  /\ pc = "batch"
  /\ image_batches = <<>>
  /\ pc' = "idle"
  /\ UNCHANGED <<trainer, args, locals, call, trace, env>>

\* ------------------------------------------------------------ _train, per scale
\* A faulty variant: features are computed on the first pass only.
NeedsFeaturesFirstOnly(feats, jj) == jj = 0

\* Features are computed on the first pass, or when the feature function of
\* this scale is not the one of the previous scale (jj counts from 0).
NeedsFeatures(feats, jj) == jj = 0 \/ feats[jj + 1] # feats[jj]

\* A faulty variant: images are scaled at every scale.
NeedsScalingAlways(s) == TRUE

\* Images are scaled only if the scale is different than 1.
NeedsScaling(s) == s # FracOne

\* A faulty variant: estimates are seeded from the boxes at every scale.
SeedsAtEveryScale(jj) == TRUE

\* The estimates are seeded at the very bottom level only.
SeedsHere(jj) == jj = 0

\* The estimates of one image: the reference shape aligned with the box under
\* each key, in the order of the keys.
SeedShapes(image, keys, reference) ==
  [n \in 1..Len(keys) |->
     AlignShapeWithBoundingBox(reference, GetLms(image.lm, keys[n]), image.scale)]

\* The first half of one iteration of the scale loop (lines 163-207):
\* features, scaling, ground truth, and at scale 0 the seeding.
ScalePrepare ==
  /\ pc = "scale"
  /\ LET recompute == NeedsFeatures(features, j)
         f_images == IF recompute
                     THEN ComputeFeatures(image_batch, features[j + 1])
                     ELSE feature_images
         rescale == NeedsScaling(scales[j + 1])
         s_images == IF rescale THEN ScaleImages(f_images, scales[j + 1])
                     ELSE f_images
     IN
     /\ feature_images' = f_images
     /\ scaled_images' = s_images
     /\ scaled_shapes' = [i \in 1..Len(s_images) |-> GetLms(s_images[i].lm, group)]
     /\ current_shapes' =
          IF SeedsHere(j)
          THEN current_shapes
               \o [i \in 1..Len(s_images) |->
                     SeedShapes(s_images[i], all_bb_keys, reference_shape)]
          ELSE current_shapes
     /\ trace' = trace
                 \o (IF recompute THEN <<Event("compute_features", j)>> ELSE <<>>)
                 \o (IF rescale THEN <<Event("scale_images", j)>> ELSE <<>>)
     /\ pc' = "stage"
     /\ UNCHANGED <<trainer, args, image_batch, bb_group, n_found, all_bb_keys, j,
                    call, env>>

\* A faulty variant: the test of the flag is inverted.
UsesTrainWhenIncrementing(incr) == incr

\* A faulty variant: every batch trains the stage from scratch.
UsesTrainAlways(incr) == TRUE

\* The stage is trained unless the call is incrementing.
UsesTrain(incr) == ~incr

\* The stage of scale j is trained or incremented (lines 209-217).
StageInvoke ==
  /\ pc = "stage"
  /\ LET stage == algorithms[j + 1]
         train == UsesTrain(increment)
     IN
     /\ algorithms' =
          [algorithms EXCEPT ![j + 1] =
             IF train
             THEN StageTrain(stage, scaled_images, scaled_shapes, current_shapes)
             ELSE StageIncrement(stage, scaled_images, scaled_shapes, current_shapes)]
     /\ current_shapes' = Corrected(current_shapes, j)
     /\ trace' = Append(trace, Event(IF train THEN "train" ELSE "increment", j))
     /\ pc' = "propagate"
     /\ UNCHANGED <<reference_shape, n_perturbations, scales, features, diagonal,
                    args, image_batch, bb_group, n_found, all_bb_keys, j,
                    feature_images, scaled_images, scaled_shapes, call, env>>

\* The estimates are scaled to the next resolution, except after the final level.
MustPropagate(jj, n) == jj # n - 1

\* A faulty variant: the ratio is taken upside down.
ScaleRatioInverted(ladder, jj) == FracDiv(ladder[jj + 1], ladder[jj + 2])

\* A faulty variant: the ratio is taken against the first scale.
ScaleRatioToFirst(ladder, jj) == FracDiv(ladder[jj + 2], ladder[1])

\* The ratio between the next scale and this one.
ScaleRatio(ladder, jj) == FracDiv(ladder[jj + 2], ladder[jj + 1])

\* A faulty variant: the scale loop steps over every other scale.
NextScaleSkipping(jj) == jj + 2

\* The scale the loop takes up after scale jj (for j in range(n_scales)).
NextScale(jj) == jj + 1

\* The end of one iteration of the scale loop (lines 219-226), and the step to
\* the next scale or, after the last one, to the next batch.
Propagate ==
  /\ pc = "propagate"
  /\ LET move == MustPropagate(j, n_scales)
     IN
     /\ current_shapes' =
          IF move
          THEN [i \in 1..Len(current_shapes) |->
                  [n \in 1..Len(current_shapes[i]) |->
                     ApplyScale(ScaleRatio(scales, j), current_shapes[i][n])]]
          ELSE current_shapes
     /\ trace' = trace \o (IF move THEN <<Event("transform", j)>> ELSE <<>>)
     /\ j' = NextScale(j)
     /\ IF NextScale(j) < n_scales
        THEN pc' = "scale" /\ k' = k
        ELSE pc' = "batch" /\ k' = k + 1
     /\ UNCHANGED <<trainer, group, bounding_box_group, batch_size, image_batches,
                    increment, image_batch, bb_group, n_found, all_bb_keys,
                    feature_images, scaled_images, scaled_shapes, call, env>>

\* ------------------------------------------------------------ the public calls
\* increment(images, group, bounding_box_group, batch_size) on a trained
\* trainer: _train with increment=True (lines 228-233).  The group is
\* the call's own argument, not the one the trainer was built with.
Increment ==
  /\ pc = "idle"
  /\ call < MaxCalls
  /\ \E src \in sources :
       /\ image_batches' = ImageBatches(src.images, src.batch_size)
       /\ bounding_box_group' = src.bounding_box_group
       /\ batch_size' = src.batch_size
       /\ group' = src.group
  /\ increment' = TRUE
  /\ k' = 0
  /\ call' = call + 1
  /\ pc' = "batch"
  /\ UNCHANGED <<trainer, locals, trace, env>>

\* __init__ (lines 23-53) up to its call of _train with increment=False: the
\* parameters are set, one untrained stage per scale is set up.
Construct(p, src, grp, shape, n_pert) ==
  /\ scales = p.scales
  /\ features = p.features
  /\ algorithms = [jj \in 1..Len(p.scales) |-> NewStage]
  /\ reference_shape = shape
  /\ n_perturbations = n_pert
  /\ diagonal = NoDiagonal
  /\ group = grp
  /\ image_batches = ImageBatches(src.images, src.batch_size)
  /\ bounding_box_group = src.bounding_box_group
  /\ batch_size = src.batch_size
  /\ increment = FALSE
  /\ k = 0
  /\ image_batch = <<>>
  /\ bb_group = NoKey
  /\ n_found = 0
  /\ all_bb_keys = <<>>
  /\ current_shapes = <<>>
  /\ j = 0
  /\ feature_images = <<>>
  /\ scaled_images = <<>>
  /\ scaled_shapes = <<>>
  /\ pc = "batch"
  /\ call = 0
  /\ trace = <<>>
  /\ config = [pyramid |-> p, source |-> src, group |-> grp,
               reference_shape |-> shape, n_perturbations |-> n_pert]

InitWith(pyramids, first, later, groups, shapes, perts) ==
  /\ \E p \in pyramids, src \in first, grp \in groups, shape \in shapes,
        n_pert \in perts :
       Construct(p, src, grp, shape, n_pert)
  /\ sources = later
  /\ baseline = <<>>

\* A single scale of factor 1.
UnitPyramid == [scales |-> <<FracOne>>, features |-> <<"no_op">>]

\* What a later increment call may be given: a stream of images without
\* boxes and no group name, or one image with MaxBoxes supplied boxes and the
\* group named.
LaterSources ==
  {[images |-> Dataset(NumImages, <<>>), group |-> NoKey,
    bounding_box_group |-> NoKey, batch_size |-> 1],
   [images |-> Dataset(1, BoxKeys(0, MaxBoxes)), group |-> GtGroup,
    bounding_box_group |-> BbGroup, batch_size |-> NoBatch]}

\* Any source, group, reference shape and perturbation count, on the default
\* pyramid and on a single scale.
Init ==
  InitWith({DefaultPyramid, UnitPyramid}, Sources, LaterSources,
           {NoKey, GtGroup}, {NoShape, GivenShape}, 1..MaxPert)

Next ==
  \/ BatchHead
  \/ Return
  \/ ScalePrepare
  \/ StageInvoke
  \/ Propagate
  \/ Increment

Spec == Init /\ [][Next]_vars

\* Every pyramid, on one image without supplied boxes, in one batch or streamed.
PyramidSources ==
  {[images |-> Dataset(1, <<>>), bounding_box_group |-> NoKey,
    batch_size |-> b] : b \in {NoBatch, 1}}

\* The later increment call of a pyramid run: the same image, streamed.
PyramidLaterSources ==
  {[images |-> Dataset(1, <<>>), group |-> NoKey,
    bounding_box_group |-> NoKey, batch_size |-> 1]}

InitPyramid ==
  InitWith(Pyramids, PyramidSources, PyramidLaterSources,
           {NoKey}, {NoShape}, {2})

SpecPyramid == InitPyramid /\ [][Next]_vars

\* The caller builds a second trainer on the same images and with the same
\* parameters as the first, now with batch_size=1, keeping the first
\* trainer's stages to compare with.
Rebuild ==
  /\ pc = "idle"
  /\ call = 0
  /\ baseline = <<>>
  /\ config.source.batch_size = NoBatch
  /\ baseline' = algorithms
  /\ config' = [config EXCEPT !.source.batch_size = 1]
  /\ scales' = config.pyramid.scales
  /\ features' = config.pyramid.features
  /\ algorithms' = [jj \in 1..Len(config.pyramid.scales) |-> NewStage]
  /\ reference_shape' = config.reference_shape
  /\ n_perturbations' = config.n_perturbations
  /\ diagonal' = NoDiagonal
  /\ group' = config.group
  /\ image_batches' = ImageBatches(config.source.images, 1)
  /\ bounding_box_group' = config.source.bounding_box_group
  /\ batch_size' = 1
  /\ increment' = FALSE
  /\ k' = 0
  /\ image_batch' = <<>>
  /\ bb_group' = NoKey
  /\ n_found' = 0
  /\ all_bb_keys' = <<>>
  /\ current_shapes' = <<>>
  /\ j' = 0
  /\ feature_images' = <<>>
  /\ scaled_images' = <<>>
  /\ scaled_shapes' = <<>>
  /\ pc' = "batch"
  /\ trace' = <<>>
  /\ UNCHANGED <<call, sources>>

\* A first trainer built in one batch (batch_size=None) on a non-empty source.
EquivSources == {src \in Sources : src.batch_size = NoBatch /\ Len(src.images) > 0}

InitEquiv ==
  InitWith({DefaultPyramid, UnitPyramid}, EquivSources, LaterSources,
           {NoKey, GtGroup}, {NoShape, GivenShape}, 1..MaxPert)

NextEquiv ==
  \/ BatchHead
  \/ Return
  \/ ScalePrepare
  \/ StageInvoke
  \/ Propagate
  \/ Rebuild

SpecEquiv == InitEquiv /\ [][NextEquiv]_vars

\* Everything a stage was fed, batch after batch, as one sequence of samples.
RECURSIVE Flatten(_)
Flatten(fed) == IF fed = <<>> THEN <<>> ELSE Head(fed) \o Flatten(Tail(fed))

\* What a stage has learnt from: whether it was trained, and all it was fed.
StageState(stage) == [trained |-> stage.trained, fed |-> Flatten(stage.fed)]

\* ------------------------------------------------------------ reading the trace
\* The stage calls: train and increment.
IsStageEvent(e) == e.ev \in {"train", "increment"}

\* The places of the trace's events of kind ev in batch kk of call c.
EventsOf(ev, c, kk) ==
  {i \in 1..Len(trace) : trace[i].ev = ev /\ trace[i].call = c /\ trace[i].k = kk}

\* The batches started so far, as <<call, k>>.
BatchesStarted ==
  {<<trace[i].call, trace[i].k>> : i \in {n \in 1..Len(trace) : trace[n].ev = "batch"}}

\* The batches whose scale loop has finished.
BatchesFinished ==
  {b \in BatchesStarted : pc \in {"batch", "idle"} \/ b # <<call, k>>}

\* ------------------------------------------------------------ C1
\* C1 as claimed: in every run, the one started by construction and the one of
\* a public increment call alike, a stage call is train exactly when it is
\* made for the first batch of its run.
C1_FirstBatchOfEveryRunTrains ==
  \A i \in 1..Len(trace) :
    IsStageEvent(trace[i]) => (trace[i].ev = "train" <=> trace[i].k = 0)

\* C1, amended: in the run started by construction the first batch calls
\* train on every scale's stage and every later batch calls increment; in the
\* run of a public increment call every batch, the first included, calls
\* increment.  No train follows an increment, and every finished batch has
\* called the stage of every scale.
C1_TrainOnlyInFirstBatchOfConstruction ==
  /\ \A i \in 1..Len(trace) :
       IsStageEvent(trace[i]) =>
         /\ trace[i].ev = "train" <=> (trace[i].call = 0 /\ trace[i].k = 0)
         /\ trace[i].ev = "train" =>
              \A n \in 1..(i - 1) : trace[n].ev # "increment"
  /\ \A b \in BatchesFinished : \A jj \in 0..(n_scales - 1) :
       \E i \in 1..Len(trace) :
         /\ IsStageEvent(trace[i])
         /\ <<trace[i].call, trace[i].k, trace[i].j>> = <<b[1], b[2], jj>>

\* A construction run of two batches followed by an increment call's first
\* batch: train, then increment, then increment again at k = 0.
C1_Witness ==
  /\ EventsOf("train", 0, 0) # {}
  /\ EventsOf("increment", 0, 1) # {}
  /\ EventsOf("increment", 1, 0) # {}
  /\ pc = "idle"

\* ------------------------------------------------------------ C2
\* Both trainers are built: the first in one batch, the second image by image.
BothBuilt == pc = "idle" /\ baseline # <<>>

IsPerturbed(box) == \E n \in 1..Len(box.ops) : box.ops[n].op = "perturb"

\* The scale loop of a batch is running.
InScaleLoop == pc \in {"scale", "stage", "propagate"}

\* The estimates of the running batch have been seeded.
Seeded == InScaleLoop /\ (j > 0 \/ pc # "scale")

\* C3 as claimed: in a batch whose images carry exactly one box under the
\* resolved namespace, every image ends with n_perturbations boxes, all but
\* one of them generated, and the unperturbed seed box is one of the
\* n_perturbations estimates seeded at scale 0.
C3_OneSeedGivesKBoxesWithSeedKept ==
  (InScaleLoop /\ n_found = 1) =>
    \A i \in 1..Len(image_batch) :
      LET lm == image_batch[i].lm
          keys == KeysMatching(lm, bb_group)
          generated == {n \in 1..Len(keys) : IsPerturbed(GetLms(lm, keys[n]))}
      IN  /\ Len(keys) = n_perturbations
          /\ Cardinality(generated) = n_perturbations - 1
          /\ Seeded =>
               /\ Len(current_shapes[i]) = n_perturbations
               /\ \E n \in 1..Len(current_shapes[i]) :
                    ~IsPerturbed(current_shapes[i][n].bbox)

\* ------------------------------------------------------------ C4
\* The number of boxes the images of the construction run were supplied with
\* under the supplied bounding-box group.
SuppliedCount ==
  Len(KeysMatching(config.source.images[1].lm, config.source.bounding_box_group))

\* The construction run was given a bounding-box group whose box count
\* differs from the configured n_perturbations.
Diverges ==
  /\ call = 0
  /\ config.source.bounding_box_group # NoKey
  /\ SuppliedCount # config.n_perturbations

\* The divergence warnings emitted so far.
DivergenceWarnings == {i \in 1..Len(trace) : trace[i].ev = "warn_n_perturbations"}

\* After the run: n_perturbations is the supplied count, one warning was
\* emitted, no box was generated and every stage was fed exactly the supplied
\* boxes for every image.
ResetToSupplied ==
  /\ n_perturbations = SuppliedCount
  /\ Cardinality(DivergenceWarnings) = 1
  /\ \A i \in 1..Len(trace) : trace[i].ev # "generate_boxes"
  /\ \A jj \in 1..n_scales :
       LET fed == Flatten(algorithms[jj].fed)
       IN  /\ Len(fed) = Len(config.source.images)
           /\ \A i \in 1..Len(fed) :
                /\ Len(fed[i].current) = SuppliedCount
                /\ \A n \in 1..Len(fed[i].current) :
                     ~IsPerturbed(fed[i].current[n].bbox)

\* C4 as claimed: whenever the supplied count m differs from the configured
\* n_perturbations, training runs to its end and leaves n_perturbations = m,
\* one warning, and the m supplied boxes as the only seeds.
C4_AnyDivergingCountResets ==
  Diverges => (pc # "raised" /\ (pc = "idle" => ResetToSupplied))

\* C4, amended: the same when the supplied count m differs from the
\* configured n_perturbations and is not 1 (a single supplied box is a seed
\* to generate from: no warning, n_perturbations kept).
C4_DivergingCountOtherThanOneResets ==
  (Diverges /\ SuppliedCount # 1) =>
    (pc # "raised" /\ (pc = "idle" => ResetToSupplied))

\* A run of NumImages batches on images with two or more supplied boxes, the
\* configured count being another: finished, reset, one warning.
C4_Witness ==
  /\ Diverges
  /\ SuppliedCount > 1
  /\ pc = "idle"
  /\ Cardinality(BatchesStarted) = NumImages
  /\ NumImages > 1
  /\ ResetToSupplied

\* ------------------------------------------------------------ C5
\* The ground-truth shapes of a batch.
GroundTruth(batch) ==
  [i \in 1..Len(batch) |-> GetLms(batch[i].lm, ResolveGroup(group, batch))]

\* Everything normalized so far is normalized against reference_shape.
NormalizedAgainstReference ==
  /\ InScaleLoop => \A i \in 1..Len(image_batch) : image_batch[i].ref = reference_shape
  /\ \A jj \in 1..n_scales :
       LET fed == Flatten(algorithms[jj].fed)
       IN  \A i \in 1..Len(fed) :
             /\ fed[i].ref = reference_shape
             /\ \A n \in 1..Len(fed[i].current) :
                  fed[i].current[n].ref = reference_shape

\* C5: the reference shape is set once.  A supplied one is kept; a missing
\* one is computed from the ground truth of the first batch processed and from
\* nothing else; once set no step changes it; and every batch is normalized
\* against that value.
C5_ReferenceShapeSetOnce ==
  /\ [](/\ config.reference_shape # NoShape => reference_shape = config.reference_shape
        /\ NormalizedAgainstReference)
  /\ [][/\ reference_shape # NoShape => reference_shape' = reference_shape
        /\ (reference_shape = NoShape /\ reference_shape' # NoShape) =>
             /\ BatchesStarted = {}
             /\ reference_shape' =
                  ComputeReferenceShape(GroundTruth(Head(image_batches)), diagonal)]_vars

\* No reference shape supplied, a streamed construction run of several
\* batches and an increment call after it: the reference shape is still the
\* mean of the first batch, a single image.
C5_Witness ==
  /\ config.reference_shape = NoShape
  /\ config.source.batch_size = 1
  /\ Len(config.source.images) > 1
  /\ call = 1
  /\ pc = "idle"
  /\ Cardinality(BatchesStarted) > 2
  /\ reference_shape =
       ComputeReferenceShape(<<Supplied(1, GtGroup)>>, NoDiagonal)

\* ------------------------------------------------------------ C6
\* The train and increment calls made so far on the stage of scale jj.
StageCalls(ev, jj) == {i \in 1..Len(trace) : trace[i].ev = ev /\ trace[i].j = jj}

\* The ids of the images in the kk-th chunk of size n of a source.
ChunkIds(images, n, kk) ==
  {i \in 1..Len(images) : kk * n < i /\ i <= (kk + 1) * n}

\* C6 as claimed: with batch_size unset a finished construction run has
\* processed one batch holding every image, trained every stage once and
\* incremented none, set the reference shape, and left n_perturbations
\* estimates for every image; with batch_size set, batch k holds the k-th
\* chunk of that size.
C6_OneBatchTrainsOnceWithKEstimates ==
  /\ (call = 0 /\ pc = "idle" /\ batch_size = NoBatch) =>
       /\ BatchesStarted = {<<0, 0>>}
       /\ \A jj \in 0..(n_scales - 1) :
            /\ Cardinality(StageCalls("train", jj)) = 1
            /\ StageCalls("increment", jj) = {}
       /\ reference_shape # NoShape
       /\ Len(current_shapes) = Len(config.source.images)
       /\ \A i \in 1..Len(current_shapes) :
            Len(current_shapes[i]) = n_perturbations
  /\ (call = 0 /\ InScaleLoop /\ batch_size # NoBatch) =>
       {image_batch[i].id : i \in 1..Len(image_batch)}
         = ChunkIds(config.source.images, batch_size, k)

\* ------------------------------------------------------------ C7
\* The first half of scale jj of batch b (features, scaling) has run.
Prepared(b, jj) ==
  \/ b \in BatchesFinished
  \/ b = <<call, k>> /\ InScaleLoop /\ (jj < j \/ (jj = j /\ pc # "scale"))

\* The places of the trace's events of kind ev at scale jj of batch b.
EventsAt(ev, b, jj) == {i \in EventsOf(ev, b[1], b[2]) : trace[i].j = jj}

\* The feature function of the images in use is the one configured for the
\* scale in hand, and every stage was only ever fed images of its own.
FeaturesAreOfScale ==
  /\ (InScaleLoop /\ pc # "scale") =>
       \A i \in 1..Len(scaled_images) :
         /\ scaled_images[i].feat = features[j + 1]
         /\ feature_images[i].feat = features[j + 1]
  /\ \A jj \in 1..n_scales :
       LET fed == Flatten(algorithms[jj].fed)
       IN  \A i \in 1..Len(fed) : fed[i].feat = features[jj]

\* C7: in every batch, features are extracted at scale jj exactly when jj = 0
\* or the feature function of scale jj is not that of scale jj - 1, and then
\* once; the images every scale uses carry that scale's feature function.
C7_FeaturesRecomputedOnlyOnChange ==
  /\ \A b \in BatchesStarted : \A jj \in 0..(n_scales - 1) :
       Prepared(b, jj) =>
         Cardinality(EventsAt("compute_features", b, jj))
           = IF jj = 0 \/ features[jj + 1] # features[jj] THEN 1 ELSE 0
  /\ FeaturesAreOfScale

\* A finished batch on three scales, the first two sharing their feature
\* function and the third having another: two extractions, not three.
C7_Witness ==
  /\ n_scales = 3
  /\ features[1] = features[2]
  /\ features[3] # features[2]
  /\ <<0, 0>> \in BatchesFinished
  /\ Cardinality(EventsOf("compute_features", 0, 0)) = 2
  /\ EventsAt("compute_features", <<0, 0>>, 1) = {}

\* ------------------------------------------------------------ C8
\* C8: at every scale of every batch the images are rescaled exactly when the
\* scale's factor is not 1, and then once, to that factor; with factor 1 the
\* feature images themselves go to the stage; extraction is as without the
\* skip, so a single scale of factor 1 makes no rescale call and one feature
\* extraction per batch.
C8_RescaleSkippedForFactorOne ==
  /\ \A b \in BatchesStarted : \A jj \in 0..(n_scales - 1) :
       Prepared(b, jj) =>
         Cardinality(EventsAt("scale_images", b, jj))
           = IF scales[jj + 1] # FracOne THEN 1 ELSE 0
  /\ (InScaleLoop /\ pc # "scale") =>
       /\ scales[j + 1] = FracOne => scaled_images = feature_images
       /\ \A i \in 1..Len(scaled_images) : scaled_images[i].scale = scales[j + 1]
  /\ (n_scales = 1 /\ scales[1] = FracOne) =>
       \A b \in BatchesFinished :
         /\ EventsOf("scale_images", b[1], b[2]) = {}
         /\ Cardinality(EventsOf("compute_features", b[1], b[2])) = 1

\* A finished batch on the single scale of factor 1: features extracted
\* once, nothing rescaled, the stage trained.
C8_Witness ==
  /\ scales = <<FracOne>>
  /\ <<0, 0>> \in BatchesFinished
  /\ EventsOf("scale_images", 0, 0) = {}
  /\ Cardinality(EventsOf("compute_features", 0, 0)) = 1
  /\ EventsOf("train", 0, 0) # {}

\* ------------------------------------------------------------ C9
\* C9 as claimed: the estimates handed to and returned by every stage number
\* n_perturbations for every image, at every scale of the batch.
C9_EstimatesPerImageEqualNPerturbations ==
  Seeded =>
    /\ Len(current_shapes) = Len(image_batch)
    /\ \A i \in 1..Len(current_shapes) : Len(current_shapes[i]) = n_perturbations

\* ------------------------------------------------------------ C10
\* Every estimate in hand has been transformed by exactly the ratios in xf.
EstimatesMovedBy(n) ==
  \A i \in 1..Len(current_shapes) : \A e \in 1..Len(current_shapes[i]) :
    LET xf == current_shapes[i][e].xf
    IN  /\ Len(xf) = n
        /\ \A m \in 1..Len(xf) : FracMul(xf[m], scales[m]) = scales[m + 1]

\* C10: when the stage of scale j is invoked, and when it returns, every
\* estimate has been scaled once for each earlier scale, by
\* scales[jj+1] / scales[jj]; nothing is applied after the final scale, so a
\* finished batch has made n_scales - 1 propagation steps.
C10_PropagatedOncePerNonFinalScale ==
  /\ (pc \in {"stage", "propagate"}) => EstimatesMovedBy(j)
  /\ (pc = "scale" /\ j > 0) => EstimatesMovedBy(j)
  /\ (pc \in {"batch", "idle"}) => EstimatesMovedBy(n_scales - 1)
  /\ \A b \in BatchesFinished :
       /\ Cardinality(EventsOf("transform", b[1], b[2])) = n_scales - 1
       /\ EventsAt("transform", b, n_scales - 1) = {}

\* The stage of the third scale of a ladder about to be invoked on estimates
\* scaled twice, by two different ratios.
C10_Witness ==
  /\ n_scales = 3
  /\ pc = "stage"
  /\ j = 2
  /\ current_shapes # <<>>
  /\ current_shapes[1] # <<>>
  /\ Len(current_shapes[1][1].xf) = 2
  /\ current_shapes[1][1].xf[1] # current_shapes[1][1].xf[2]

\* ------------------------------------------------------------ C11
\* The stage calls made so far, in the order they were made.
StageEvents == SelectSeq(trace, IsStageEvent)

\* b is the stage call due right after a: the next scale of the same batch
\* or, after the last scale, scale 0 of the next batch.
IsDueAfter(a, b) ==
  \/ b.call = a.call /\ b.k = a.k /\ b.j = a.j + 1
  \/ /\ a.j = n_scales - 1
     /\ b.j = 0
     /\ \/ b.call = a.call /\ b.k = a.k + 1
        \/ b.call = a.call + 1 /\ b.k = 0

\* The estimates in hand went through the stages 0..jj-1, in that order,
\* and through no other.
ReturnedByStagesBelow(jj) ==
  \A i \in 1..Len(current_shapes) : \A n \in 1..Len(current_shapes[i]) :
    current_shapes[i][n].by = [m \in 1..jj |-> m - 1]

\* C11: the stage calls are strictly sequential.  The first stage call ever
\* made is at scale 0; each later one is at the next scale of the same batch
\* or, once the last scale of a batch is done, at scale 0 of the next batch;
\* every finished batch has invoked the stage of each scale 0..n_scales-1
\* exactly once; and the estimates handed to the stage of scale j are the
\* ones the stages 0..j-1 have returned, in that order.
C11_StagesStrictlySequential ==
  /\ StageEvents # <<>> => StageEvents[1].j = 0
  /\ \A i \in 1..(Len(StageEvents) - 1) : IsDueAfter(StageEvents[i], StageEvents[i + 1])
  /\ \A b \in BatchesFinished : \A jj \in 0..(n_scales - 1) :
       Cardinality(EventsAt("train", b, jj) \cup EventsAt("increment", b, jj)) = 1
  /\ pc = "stage" => ReturnedByStagesBelow(j)
  /\ pc = "propagate" => ReturnedByStagesBelow(j + 1)

\* Two batches of one run have gone through both scales of a two-scale pyramid.
C11_Witness ==
  /\ n_scales = 2
  /\ {<<call, 0>>, <<call, 1>>} \subseteq BatchesFinished
  /\ Len(StageEvents) >= 4

\* ------------------------------------------------------------ C12
\* What the stage of scale jj was handed in its latest call, image by image.
LastFed(jj) == algorithms[jj + 1].fed[Len(algorithms[jj + 1].fed)]

\* The estimates the stage of scale jj returned from its latest call, after
\* the transform to the frame of scale jj + 1.
PropagatedFrom(jj) ==
  [i \in 1..Len(LastFed(jj)) |->
     [n \in 1..Len(LastFed(jj)[i].current) |->
        LET returned == [LastFed(jj)[i].current[n] EXCEPT !.by = Append(@, jj)]
        IN  [returned EXCEPT !.xf = Append(@, FracDiv(scales[jj + 2], scales[jj + 1]))]]]

\* The estimates derived from the boxes of the images in hand, and nothing else.
SeededFromBoxes ==
  [i \in 1..Len(scaled_images) |->
     [n \in 1..Len(all_bb_keys) |->
        [ref |-> reference_shape,
         bbox |-> GetLms(scaled_images[i].lm, all_bb_keys[n]),
         frame0 |-> scaled_images[i].scale, xf |-> <<>>, by |-> <<>>]]]

\* C12: the estimates handed to the stage of scale 0 are the reference shape
\* aligned with each box of each image of the batch in hand, and nothing
\* else (nothing is carried over from the previous batch); the estimates
\* handed to the stage of a scale j > 0 are exactly what the stage of scale
\* j - 1 returned for this batch, after the cross-scale transform.
C12_SeededAtScaleZeroOnly ==
  pc = "stage" =>
    /\ j = 0 => current_shapes = SeededFromBoxes
    /\ j > 0 => current_shapes = PropagatedFrom(j - 1)
    /\ Len(current_shapes) = Len(image_batch)

\* The stage of scale 1 is about to be called for the second batch of a run.
C12_Witness ==
  /\ pc = "stage"
  /\ j = 1
  /\ k = 1
  /\ current_shapes # <<>>
  /\ current_shapes[1] # <<>>

\* ------------------------------------------------------------ C13
\* A second landmark group some images carry.
OtherGroup == <<"h">>

\* An image without boxes carrying the given landmark groups, in that order.
MakeLabelled(id, labels) ==
  [id |-> id,
   lm |-> [i \in 1..Len(labels) |-> [key |-> labels[i], val |-> Supplied(id, labels[i])]],
   ref |-> NoShape, feat |-> "None", scale |-> FracOne]

\* The groups an image may carry, first label first.
LabelOrders ==
  {<<GtGroup>>, <<OtherGroup>>, <<GtGroup, OtherGroup>>, <<OtherGroup, GtGroup>>}

\* NumImages images, each with its own landmark groups.
MixedDatasets ==
  {[i \in 1..NumImages |-> MakeLabelled(i, labels[i])] :
     labels \in [1..NumImages -> LabelOrders]}

MixedSources ==
  {[images |-> images, bounding_box_group |-> NoKey, batch_size |-> b] :
     images \in MixedDatasets, b \in BatchSizes}

\* A later increment call on a stream whose first image leads with the other
\* group, no group named.
MixedLaterSources ==
  {[images |-> [i \in 1..NumImages |->
                  MakeLabelled(i, IF i = 1 THEN <<OtherGroup, GtGroup>>
                                  ELSE <<GtGroup, OtherGroup>>)],
    group |-> NoKey, bounding_box_group |-> NoKey, batch_size |-> 1]}

\* Images that differ in their landmark groups, with and without a group named.
InitGroups ==
  InitWith({DefaultPyramid}, MixedSources, MixedLaterSources,
           {NoKey, GtGroup}, {NoShape}, {2})

SpecGroups == InitGroups /\ [][Next]_vars

\* The group the construction run reads its images under: the one named or,
\* when none was named, the first label of the first image it was given.
GroupOfConstruction ==
  IF config.group # NoKey THEN config.group
  ELSE GroupLabels(config.source.images[1].lm)[1]

\* C13: once a run has a group name it keeps it.  Within one call of _train
\* the group changes only at the head of the first batch, when none was
\* named, to the first label of the first image of that batch; every batch
\* of the construction run reads its ground truth under that one group,
\* whatever the first label of its own first image is.
C13_GroupResolvedOnceFromFirstBatch ==
  /\ [](InScaleLoop => group # NoKey)
  /\ []((call = 0 /\ pc \in {"stage", "propagate"}) =>
          /\ group = GroupOfConstruction
          /\ \A i \in 1..Len(scaled_shapes) : scaled_shapes[i].key = GroupOfConstruction)
  /\ [][(group' # group /\ call' = call) =>
          /\ pc = "batch"
          /\ k = 0
          /\ group = NoKey
          /\ group' = GroupLabels(Head(image_batches)[1].lm)[1]]_vars

\* A later batch of a run that was given no group name, whose first image
\* leads with another group than the one resolved from the first batch.
C13_Witness ==
  /\ call = 0
  /\ config.group = NoKey
  /\ k = 1
  /\ pc = "stage"
  /\ GroupLabels(image_batch[1].lm)[1] # group

\* ------------------------------------------------------------ C14
\* The collaborators _train is about to call where it stands: before the
\* scale loop the reference-shape computation (if none is set), the rescaling
\* and the perturbation (if boxes are to be generated); in the scale loop
\* the feature extraction and the scaling (if due) and the alignment (at the
\* seeding scale); then the stage's train or increment.
CollaboratorsDue ==
  IF pc = "batch"
  THEN IF image_batches = <<>> \/ BatchRaises(group, Head(image_batches)) THEN {}
       ELSE LET batch0 == Head(image_batches)
                grp == ResolveGroup(group, batch0)
                boxed == AttachGtBoxes(batch0, grp, bounding_box_group)
                found == Len(KeysMatching(boxed[1].lm, ResolveBbGroup(bounding_box_group)))
            IN  (IF reference_shape = NoShape THEN {"compute_reference_shape"} ELSE {})
                \cup {"rescale_images_to_reference_shape"}
                \cup (IF MustGenerate(found) /\ LastDraw(n_perturbations) >= 1
                      THEN {"perturb_from_bounding_box"} ELSE {})
  ELSE IF pc = "scale"
  THEN (IF NeedsFeatures(features, j) THEN {"compute_features"} ELSE {})
       \cup (IF NeedsScaling(scales[j + 1]) THEN {"scale_images"} ELSE {})
       \cup (IF SeedsHere(j) /\ image_batch # <<>> /\ all_bb_keys # <<>>
             THEN {"align_shape_with_bounding_box"} ELSE {})
  ELSE IF pc = "stage"
  THEN {IF UsesTrain(increment) THEN "train" ELSE "increment"}
  ELSE {}

\* A faulty variant: the failure is swallowed and the batch loop goes on.
AfterFailureGoesOn(at) == "batch"

\* Where _train stands after a collaborator has raised: nothing in lines
\* 66-226 catches, so the call is over.
AfterFailure(at) == "raised"

\* The trace entry of a failure raised by collaborator who.
Raised(who) == [ev |-> "raise", call |-> call, k |-> k, j |-> j, by |-> who]

\* A collaborator raises.  What the trainer holds by then stays: the
\* reference shape is already set when the rescaling or the perturbation
\* fails.
Fail ==
  /\ \E who \in CollaboratorsDue :
       /\ trace' = Append(trace, Raised(who))
       /\ reference_shape' =
            IF pc = "batch" /\ who # "compute_reference_shape"
            THEN ReferenceShapeFor(reference_shape, Head(image_batches),
                                   ResolveGroup(group, Head(image_batches)), diagonal)
            ELSE reference_shape
  /\ pc' = AfterFailure(pc)
  /\ UNCHANGED <<n_perturbations, scales, features, diagonal, algorithms,
                 args, locals, call, env>>

\* Construction on images without supplied boxes, whole or streamed.
FailSources == {src \in Sources : src.bounding_box_group = NoKey}

InitFail ==
  InitWith({DefaultPyramid}, FailSources, LaterSources,
           {NoKey}, {NoShape, GivenShape}, {2})

NextFail ==
  \/ BatchHead
  \/ Return
  \/ ScalePrepare
  \/ StageInvoke
  \/ Propagate
  \/ Increment
  \/ Fail

SpecFail == InitFail /\ [][NextFail]_vars

\* The places of the trace where a collaborator raised.
RaisePlaces == {i \in 1..Len(trace) : trace[i].ev = "raise"}

\* C14: a failure raised by a collaborator ends the call.  Once one has
\* raised, _train is over with that failure: nothing is called after it, no
\* stage of a later scale and no later batch, and the call never returns
\* normally; the failure is the last thing that happened.
C14_CollaboratorFailureEndsTheCall ==
  /\ \A i \in RaisePlaces : i = Len(trace)
  /\ RaisePlaces # {} => pc = "raised"

\* A stage raised at scale 0 of the second batch: scale 1 and any later
\* batch are still to come.
C14_Witness ==
  /\ pc = "raised"
  /\ RaisePlaces # {}
  /\ trace[Len(trace)].by \in {"train", "increment"}
  /\ trace[Len(trace)].j = 0
  /\ trace[Len(trace)].k = 1
  /\ n_scales = 2

\* ------------------------------------------------------------ C15
\* Sequence a is the beginning of sequence b.
IsPrefix(a, b) == Len(a) <= Len(b) /\ \A i \in 1..Len(a) : a[i] = b[i]

\* C15: a public increment call only ever increments.  Every stage call made
\* in a public increment call, its first batch included, is increment; the
\* trainer keeps the stages it was constructed with, one per scale; and no
\* step of such a call resets a stage: what a stage was fed before stays,
\* in order, and is only added to.
C15_IncrementCallOnlyIncrements ==
  /\ [](\A i \in 1..Len(trace) :
          (IsStageEvent(trace[i]) /\ trace[i].call >= 1) => trace[i].ev = "increment")
  /\ [](Len(algorithms) = Len(config.pyramid.scales))
  /\ [][call' >= 1 =>
          \A jj \in 1..Len(algorithms) :
            /\ algorithms'[jj].trained = algorithms[jj].trained
            /\ IsPrefix(algorithms[jj].fed, algorithms'[jj].fed)]_vars

\* The first batch of a public increment call has extended a stage that
\* construction had trained.
C15_Witness ==
  /\ call = 1
  /\ k = 0
  /\ pc = "propagate"
  /\ algorithms[j + 1].trained
  /\ Len(algorithms[j + 1].fed) >= 2

\* ------------------------------------------------------------ C16
\* C16 as claimed: over the lifetime of a trainer every stage's train is
\* called exactly once (never twice, and once by the time construction has
\* returned), every increment of a stage comes after that stage's train,
\* and no stage that has been fed anything is untrained.
C16_EveryStageTrainedOnceBeforeIncrement ==
  \A jj \in 0..(n_scales - 1) :
    /\ Cardinality(StageCalls("train", jj)) <= 1
    /\ pc = "idle" => Cardinality(StageCalls("train", jj)) = 1
    /\ \A i \in StageCalls("increment", jj) : \E i0 \in StageCalls("train", jj) : i0 < i
    /\ algorithms[jj + 1].fed # <<>> => algorithms[jj + 1].trained

\* ------------------------------------------------------------ C17
\* Every estimate in hand has come from scale 0 to scale jj: the factors
\* applied to it since it was seeded multiply to scales[jj] / scales[0], and
\* it is in the frame of scale jj.
EstimatesInFrameOf(jj) ==
  \A i \in 1..Len(current_shapes) : \A n \in 1..Len(current_shapes[i]) :
    /\ FracProd(current_shapes[i][n].xf) = FracDiv(scales[jj + 1], scales[1])
    /\ FrameOf(current_shapes[i][n]) = scales[jj + 1]

\* C17: the frames agree at every scale.  When the stage of scale j is
\* called, and when it returns, the factors applied to each estimate since
\* scale 0 multiply to scales[j] / scales[0] and the estimate is in the frame
\* of scale j; the stage's images are the unscaled feature images scaled by
\* scales[j]; the targets are read off those images; and everything a stage
\* was ever fed, images and estimates, was in the frame of its own scale.
C17_FramesAgreeAtEveryScale ==
  /\ pc \in {"stage", "propagate"} =>
       /\ EstimatesInFrameOf(j)
       /\ \A i \in 1..Len(scaled_images) :
            /\ scaled_images[i].scale = scales[j + 1]
            /\ scaled_shapes[i] = GetLms(scaled_images[i].lm, group)
  /\ \A jj \in 1..n_scales :
       LET fed == Flatten(algorithms[jj].fed)
       IN  \A i \in 1..Len(fed) :
             /\ fed[i].scale = scales[jj]
             /\ \A n \in 1..Len(fed[i].current) : FrameOf(fed[i].current[n]) = scales[jj]

\* The last stage of a ladder that goes up and then down, through factor 1,
\* is about to be called.
C17_Witness ==
  /\ scales = <<FracOne, FracTwo, FracHalf>>
  /\ pc = "stage"
  /\ j = 2
  /\ current_shapes # <<>>
  /\ current_shapes[1] # <<>>

\* ------------------------------------------------------------ C18
\* The keys the generated boxes are stored under: '<bb_group>_<j>' for
\* j = 1..n_perturbations-1.
GeneratedKeys == {FormatKey(bb_group, jj) : jj \in 1..LastDraw(n_perturbations)}

\* The draws that went into a box.
DrawsOf(box) == {box.ops[n].draw : n \in {m \in 1..Len(box.ops) : box.ops[m].op = "perturb"}}

\* C18 as claimed: in a batch where exactly one key matched the namespace,
\* the keys of the generated boxes are pairwise distinct and none of them is
\* the seed's key; on every image the seed box is still unperturbed, the box
\* under the j-th generated key is the outcome of draw j alone, and the keys
\* re-counted after generation number n_perturbations.
C18_GeneratedKeysMissTheSeedKey ==
  (InScaleLoop /\ n_found = 1) =>
    LET seed_key == all_bb_keys[1]
    IN  /\ Cardinality(GeneratedKeys) = LastDraw(n_perturbations)
        /\ seed_key \notin GeneratedKeys
        /\ \A i \in 1..Len(image_batch) :
             /\ DrawsOf(GetLms(image_batch[i].lm, seed_key)) = {}
             /\ \A jj \in 1..LastDraw(n_perturbations) :
                  DrawsOf(GetLms(image_batch[i].lm, FormatKey(bb_group, jj))) = {jj}
        /\ Len(all_bb_keys) = n_perturbations

\* ------------------------------------------------------------ C19
\* The draws made on image i of the batch in hand: those that went into any
\* of its boxes.
DrawsOn(i) ==
  UNION {DrawsOf(GetLms(image_batch[i].lm, all_bb_keys[n])) : n \in 1..Len(all_bb_keys)}

\* The step is the head of a batch going on to its scale loop.
IsBatchHeadStep == pc = "batch" /\ pc' = "scale"

\* C19: n_perturbations changes only at the head of a batch whose count of
\* matching keys is not 1 and differs from it, and then takes that count; a
\* batch with one matching key, as every batch without a bounding-box group
\* is, leaves it alone; no other step, the start of a later increment call
\* included, touches it.  So a batch with one matching key makes the draws
\* 1..n-1 on every image, n being the value n_perturbations has by then.
C19_NPerturbationsChangesOnlyOnDivergence ==
  /\ [][n_perturbations' # n_perturbations =>
          /\ IsBatchHeadStep
          /\ n_found' # 1
          /\ n_found' # n_perturbations
          /\ n_perturbations' = n_found']_vars
  /\ [][(IsBatchHeadStep /\ bounding_box_group = NoKey) =>
          /\ n_found' = 1
          /\ n_perturbations' = n_perturbations]_vars
  /\ []((InScaleLoop /\ n_found = 1) =>
          \A i \in 1..Len(image_batch) : DrawsOn(i) = 1..(n_perturbations - 1))

\* Construction overwrote the configured count, and a batch of a later
\* increment call with one box per image has generated from the overwritten
\* count.
C19_Witness ==
  /\ call = 1
  /\ InScaleLoop
  /\ n_found = 1
  /\ n_perturbations # config.n_perturbations
  /\ n_perturbations >= 2
  /\ DrawsOn(1) = 1..(n_perturbations - 1)
  /\ DrawsOn(1) # 1..(config.n_perturbations - 1)
====
